---- MODULE Spec2Model ----
(***************************************************************************)
(* Model of the velocity-transit-story choreography code:                  *)
(*   - slideAnimator.js (src/unnamed/part_000 lines 1-197): the dispatch   *)
(*     table choreographyHandlers, slideAnimation and the five handlers;   *)
(*   - main.js (src/unnamed/part_000 lines 199-381): the slide driver      *)
(*     (choreography load, hash listener, reset button, initialisation).   *)
(* JavaScript runs each event handler to completion, so every event is one *)
(* action; work that continues after an await or in a promise callback is  *)
(* a separate action (GoToSettle, LayerLoaded, OrphanSettle, LoadSettle).  *)
(***************************************************************************)
EXTENDS Integers, Sequences, FiniteSets, TLC

\* ------------------------------------------------------------------ bounds
MaxKeys == 2        \* own keys per generated slide
MaxReady == 2       \* arcgisViewReadyChange events with ready = true
MaxOrphans == 1     \* detached clones whose load is still pending

VARIABLES
  mapView,          \* "null" until the view is ready, then "view"        (l.210, 368)
  layers,           \* mapView.map.layers: sequence of layer objects
  view,             \* the view's goTo state: [target, settled]
  orphans,          \* pending when() continuations on clones no longer (or never) in the map
  timeSlider,       \* the <arcgis-time-slider> element, or absent         (l.227)
  choreographyData, \* the loaded sequence of slides                       (l.244)
  hashIndex,        \* [isNaN, val]                                        (l.212)
  isEmbedded,       \*                                                     (l.211)
  resetButton,      \* [disabled, clickListeners]                          (l.220)
  hashListeners,    \* number of registered "hashchange" listeners         (l.260)
  loading,          \* initMapAnimator runs suspended in loadChoreography  (l.341)
  choreographyJson, \* the document at the choreography path (environment)
  ev                \* record of the last event handled (history, for the properties)

vars == <<mapView, layers, view, orphans, timeSlider, choreographyData, hashIndex,
          isEmbedded, resetButton, hashListeners, loading, choreographyJson, ev>>

\* ------------------------------------------------------ JavaScript values
\* Strings stand for JSON strings; "undefined" is the value of a missing
\* property; "" is the empty string.  Both are falsy.
Undefined == "undefined"
Truthy(v) == v \notin {Undefined, "", "null"}

\* new Date(v): a time value for a date string, "Invalid Date" for undefined
\* or an unparsable string.
InvalidDate == [valid |-> FALSE, iso |-> "Invalid Date"]
NullDate == [valid |-> FALSE, iso |-> "null"]
NewDate(v) == IF Truthy(v) THEN [valid |-> TRUE, iso |-> v] ELSE InvalidDate

Range(s) == {s[i] : i \in DOMAIN s}

\* ------------------------------------------------------------ slide data
\* A SlideConfig is [keys, var]: its own keys in insertion order, and which
\* of the value tables gives the value stored under each key.  Variants 4
\* and 5 store the values of variant 1 under every key but timeSlider.
RegisteredKeys == {"viewpoint", "timeSlider", "layerVisibility", "trackRenderer", "camera"}
OtherKeys == {"timeSliderStart"}
Keys == RegisteredKeys \cup OtherKeys
Variants == {1, 2, 3, 4, 5}
Base(var) == IF var \in {4, 5} THEN 1 ELSE var

NoTimeSlider ==
  [isObj |-> FALSE, timeSliderStart |-> Undefined, timeSliderEnd |-> Undefined,
   timeSliderUnit |-> Undefined, timeSliderStep |-> 0, timeSliderAutoplay |-> FALSE]
TimeSliderValue(var) ==
  CASE var = 1 -> [isObj |-> TRUE, timeSliderStart |-> "2024-01-01", timeSliderEnd |-> "2024-01-02",
                   timeSliderUnit |-> "minutes", timeSliderStep |-> 1, timeSliderAutoplay |-> TRUE]
    [] var = 2 -> [isObj |-> TRUE, timeSliderStart |-> "2024-02-01", timeSliderEnd |-> "2024-02-02",
                   timeSliderUnit |-> "hours", timeSliderStep |-> 5, timeSliderAutoplay |-> FALSE]
    [] var = 4 -> [isObj |-> TRUE, timeSliderStart |-> "2024-04-01", timeSliderEnd |-> "2024-04-02",
                   timeSliderUnit |-> "minutes", timeSliderStep |-> 1, timeSliderAutoplay |-> FALSE]
    [] var = 5 -> [isObj |-> TRUE, timeSliderStart |-> "2024-02-01", timeSliderEnd |-> "2024-02-02",
                   timeSliderUnit |-> "hours", timeSliderStep |-> 5, timeSliderAutoplay |-> FALSE]
    [] OTHER   -> [isObj |-> TRUE, timeSliderStart |-> Undefined, timeSliderEnd |-> "2024-01-02",
                   timeSliderUnit |-> "minutes", timeSliderStep |-> 1, timeSliderAutoplay |-> TRUE]

NoLayerVisibility == [isObj |-> FALSE, layersOn |-> <<>>, layersOff |-> <<>>]
LayerVisibilityValue(var) ==
  CASE Base(var) = 1 -> [isObj |-> TRUE, layersOn |-> <<"A", "Z">>, layersOff |-> <<"B">>]
    [] var = 2 -> [isObj |-> TRUE, layersOn |-> <<"A", "B">>, layersOff |-> <<"B", "T">>]
    [] OTHER   -> NoLayerVisibility      \* "layerVisibility": null

NoTrackRenderer ==
  [isObj |-> FALSE, trackLayerName |-> Undefined, trackFieldName |-> Undefined, trackInfo |-> Undefined]
TrackRendererValue(var) ==
  CASE Base(var) = 1 ->
         [isObj |-> TRUE, trackLayerName |-> "T", trackFieldName |-> "f1", trackInfo |-> "r1"]
    [] var = 2 -> [isObj |-> TRUE, trackLayerName |-> "T", trackFieldName |-> "f2", trackInfo |-> "r2"]
    [] OTHER   -> [isObj |-> TRUE, trackLayerName |-> "Z", trackFieldName |-> "f1", trackInfo |-> "r1"]

ViewpointValue(var) == IF Base(var) = 1 THEN "vp1" ELSE IF var = 2 THEN "vp2" ELSE "vp3"
CameraValue(var) == IF Base(var) = 1 THEN "cam1" ELSE IF var = 2 THEN "cam2" ELSE "null"
StartValue(var) == IF Base(var) = 1 THEN "2024-03-01" ELSE IF var = 2 THEN "2024-03-02" ELSE ""

Has(slide, key) == key \in Range(slide.keys)
\* slideData.<key>: the stored value, or undefined when the key is absent
SlideTimeSlider(slide) ==
  IF Has(slide, "timeSlider") THEN TimeSliderValue(slide.var) ELSE NoTimeSlider
SlideLayerVisibility(slide) ==
  IF Has(slide, "layerVisibility") THEN LayerVisibilityValue(slide.var) ELSE NoLayerVisibility
SlideTrackRenderer(slide) ==
  IF Has(slide, "trackRenderer") THEN TrackRendererValue(slide.var) ELSE NoTrackRenderer
SlideViewpoint(slide) == IF Has(slide, "viewpoint") THEN ViewpointValue(slide.var) ELSE Undefined
SlideCamera(slide) == IF Has(slide, "camera") THEN CameraValue(slide.var) ELSE Undefined
SlideStart(slide) == IF Has(slide, "timeSliderStart") THEN StartValue(slide.var) ELSE Undefined

\* duplicate-free key sequences of length <= n
NoDup(s) == \A i, j \in DOMAIN s : i # j => s[i] # s[j]
KeySeqs(n) == {s \in UNION {[1..m -> Keys] : m \in 0..n} : NoDup(s)}
\* the orderings of a key sequence
Orderings(ks) == {p \in [1..Len(ks) -> Range(ks)] : NoDup(p)}
\* slides of up to MaxKeys keys, and the slides that configure the slider,
\* the track layer and the layer visibilities together
Slides ==
  {[keys |-> ks, var |-> v] :
     ks \in KeySeqs(MaxKeys) \cup Orderings(<<"timeSlider", "trackRenderer", "layerVisibility">>),
     v \in Variants}

\* ------------------------------------------------------------ SDK objects
\* The pending continuation of applyTrackRenderer after `await trackLayer.when()`
\* (l.178-190), kept with the clone it waits on.
NoCont == [active |-> FALSE, trackIdField |-> "", unit |-> "", value |-> 0, trackInfo |-> ""]
Layer(title, visible) ==
  [title |-> title, visible |-> visible,
   timeInfo |-> [startField |-> "start_time", trackIdField |-> "",
                 interval |-> [unit |-> "", value |-> 0]],
   trackInfo |-> "", cont |-> NoCont]

\* Synchronous SDK failures an event can meet: Viewpoint.fromJSON / goTo
\* throwing, timeSlider.play / stop throwing.  map.remove and map.add are
\* taken to succeed (a failure of either is caught where it happens, l.166
\* and l.174).
FaultKinds == {"goTo", "play"}

\* The objects one event handler works on, with the calls it has made so far.
World(faults) ==
  [layers |-> layers, view |-> view, orphans |-> orphans, timeSlider |-> timeSlider,
   invoked |-> [k \in RegisteredKeys |-> 0], play |-> 0, stop |-> 0,
   threw |-> FALSE, caught |-> 0, faults |-> faults]
Invoked(w, key) == [w EXCEPT !.invoked[key] = @ + 1]
Throw(w) == [w EXCEPT !.threw = TRUE]

\* ------------------------------------------------------------- handlers
\* mapView.goTo(target, {animate, duration: 1000}).catch(log)
goTo(w, target) ==
  IF "goTo" \in w.faults THEN Throw(w)
  ELSE [w EXCEPT !.view = [target |-> target, settled |-> FALSE]]

toggleViewpoint(w, slideData, embedded) ==
  goTo(w, SlideViewpoint(slideData))

\* Camera is not imported by slideAnimator.js (l.1): reading it throws a
\* ReferenceError once cameraData is truthy.
\* mutant: Camera is imported, and the handler starts the transition
toggleCamera_imported(w, slideData, embedded) ==
  IF ~Truthy(SlideCamera(slideData)) THEN w ELSE goTo(w, SlideCamera(slideData))
toggleCamera(w, slideData, embedded) ==
  LET cameraData == SlideCamera(slideData)
  IN IF ~Truthy(cameraData) THEN w ELSE Throw(w)

play(w) ==
  IF "play" \in w.faults THEN Throw([w EXCEPT !.play = @ + 1])
  ELSE [w EXCEPT !.play = @ + 1, !.timeSlider.state = "playing"]
stop(w) ==
  IF "play" \in w.faults THEN Throw([w EXCEPT !.stop = @ + 1])
  ELSE [w EXCEPT !.stop = @ + 1, !.timeSlider.state = "ready"]

\* mutant: the current extent spans the whole range instead of ending at the start
toggleTimeSlider_fullExtent(w, slideData, embedded) ==
  LET cfg == SlideTimeSlider(slideData)
  IN IF w.timeSlider.present /\ cfg.isObj
        /\ Truthy(cfg.timeSliderStart) /\ Truthy(cfg.timeSliderEnd)
     THEN LET startFrame == NewDate(cfg.timeSliderStart)
              endFrame == NewDate(cfg.timeSliderEnd)
              w1 == [w EXCEPT
                       !.timeSlider.fullTimeExtent = [start |-> startFrame, end |-> endFrame],
                       !.timeSlider.timeExtent = [start |-> startFrame, end |-> endFrame],
                       !.timeSlider.stops = [value |-> cfg.timeSliderStep,
                                             unit |-> cfg.timeSliderUnit]]
          IN IF w.timeSlider.state = "ready" /\ ~embedded THEN play(w1)
             ELSE IF w.timeSlider.state = "ready" /\ embedded THEN stop(w1)
             ELSE w1
     ELSE w
\* mutant: the slider is stopped whenever it is not started
toggleTimeSlider_stopOtherwise(w, slideData, embedded) ==
  LET cfg == SlideTimeSlider(slideData)
  IN IF w.timeSlider.present /\ cfg.isObj
        /\ Truthy(cfg.timeSliderStart) /\ Truthy(cfg.timeSliderEnd)
     THEN LET startFrame == NewDate(cfg.timeSliderStart)
              endFrame == NewDate(cfg.timeSliderEnd)
              w1 == [w EXCEPT
                       !.timeSlider.fullTimeExtent = [start |-> startFrame, end |-> endFrame],
                       !.timeSlider.timeExtent = [start |-> NullDate, end |-> startFrame],
                       !.timeSlider.stops = [value |-> cfg.timeSliderStep,
                                             unit |-> cfg.timeSliderUnit]]
          IN IF w.timeSlider.state = "ready" /\ ~embedded THEN play(w1) ELSE stop(w1)
     ELSE w

toggleTimeSlider(w, slideData, embedded) ==
  LET cfg == SlideTimeSlider(slideData)
  IN IF w.timeSlider.present /\ cfg.isObj
        /\ Truthy(cfg.timeSliderStart) /\ Truthy(cfg.timeSliderEnd)
     THEN LET startFrame == NewDate(cfg.timeSliderStart)
              endFrame == NewDate(cfg.timeSliderEnd)
              w1 == [w EXCEPT
                       !.timeSlider.fullTimeExtent = [start |-> startFrame, end |-> endFrame],
                       !.timeSlider.timeExtent = [start |-> NullDate, end |-> startFrame],
                       !.timeSlider.stops = [value |-> cfg.timeSliderStep,
                                             unit |-> cfg.timeSliderUnit]]
          IN IF w.timeSlider.state = "ready" /\ ~embedded THEN play(w1)
             ELSE IF w.timeSlider.state = "ready" /\ embedded THEN stop(w1)
             ELSE w1
     ELSE w

setLayerVisibility(mapLayers, layerNames, visibility) ==
  IF Len(layerNames) > 0
  THEN [i \in DOMAIN mapLayers |->
          IF mapLayers[i].title \in Range(layerNames)
          THEN [mapLayers[i] EXCEPT !.visible = visibility]
          ELSE mapLayers[i]]
  ELSE mapLayers

\* mutant: the two lists are applied in the other order
toggleLayerVisibility_offThenOn(w, slideData, embedded) ==
  LET lv == SlideLayerVisibility(slideData)
  IN IF ~lv.isObj THEN Throw(w)
     ELSE [w EXCEPT !.layers =
             setLayerVisibility(setLayerVisibility(@, lv.layersOff, FALSE), lv.layersOn, TRUE)]

toggleLayerVisibility(w, slideData, embedded) ==
  LET lv == SlideLayerVisibility(slideData)
  IN IF ~lv.isObj THEN Throw(w)     \* TypeError reading null.layersOn
     ELSE [w EXCEPT !.layers =
             setLayerVisibility(setLayerVisibility(@, lv.layersOn, TRUE), lv.layersOff, FALSE)]

\* mapLayers.find / indexOf: position of the first layer with that title, 0 if none
FindLayer(mapLayers, title) ==
  IF \E i \in DOMAIN mapLayers : mapLayers[i].title = title
  THEN CHOOSE i \in DOMAIN mapLayers :
         /\ mapLayers[i].title = title
         /\ \A j \in DOMAIN mapLayers : mapLayers[j].title = title => i <= j
  ELSE 0
\* mutant: the clone is added on top of the layer stack
InsertAt_end(s, i, x) == Append(s, x)
RemoveAt(s, i) == SubSeq(s, 1, i - 1) \o SubSeq(s, i + 1, Len(s))
InsertAt(s, i, x) == SubSeq(s, 1, i - 1) \o <<x>> \o SubSeq(s, i, Len(s))

\* mutant: the layer is reconfigured in place, without remove/clone/add, so
\* an earlier continuation still pending on it finishes last
applyTrackRenderer_inPlace(w, trackRenderer, trackTimeConfig) ==
  IF ~trackRenderer.isObj \/ ~trackTimeConfig.isObj THEN w
  ELSE LET at == FindLayer(w.layers, trackRenderer.trackLayerName)
       IN IF at = 0 \/ w.layers[at].cont.active THEN w
          ELSE [w EXCEPT !.layers[at].cont =
                  [active |-> TRUE,
                   trackIdField |-> trackRenderer.trackFieldName,
                   unit |-> trackTimeConfig.timeSliderUnit,
                   value |-> trackTimeConfig.timeSliderStep,
                   trackInfo |-> trackRenderer.trackInfo]]
\* mutant: a missing timeSlider object is read as undefined unit and step
applyTrackRenderer_optionalConfig(w, trackRenderer, trackTimeConfig) ==
  IF ~trackRenderer.isObj THEN w
  ELSE LET at == FindLayer(w.layers, trackRenderer.trackLayerName)
       IN IF at = 0 THEN w
          ELSE LET old == w.layers[at]
                   clone == [old EXCEPT !.cont =
                               [active |-> TRUE,
                                trackIdField |-> trackRenderer.trackFieldName,
                                unit |-> trackTimeConfig.timeSliderUnit,
                                value |-> trackTimeConfig.timeSliderStep,
                                trackInfo |-> trackRenderer.trackInfo]]
               IN [w EXCEPT
                     !.layers = InsertAt(RemoveAt(w.layers, at), at, clone),
                     !.orphans = @ + (IF old.cont.active THEN 1 ELSE 0)]
applyTrackRenderer(w, trackRenderer, trackTimeConfig) ==
  IF ~trackRenderer.isObj \/ ~trackTimeConfig.isObj THEN w   \* TypeError, caught l.192
  ELSE LET at == FindLayer(w.layers, trackRenderer.trackLayerName)
       IN IF at = 0 THEN w
          ELSE LET old == w.layers[at]
                   clone == [old EXCEPT !.cont =
                               [active |-> TRUE,
                                trackIdField |-> trackRenderer.trackFieldName,
                                unit |-> trackTimeConfig.timeSliderUnit,
                                value |-> trackTimeConfig.timeSliderStep,
                                trackInfo |-> trackRenderer.trackInfo]]
                   afterRemove == RemoveAt(w.layers, at)
                   afterAdd == InsertAt(afterRemove, at, clone)
               IN [w EXCEPT
                     !.layers = afterAdd,
                     !.orphans = @ + (IF old.cont.active THEN 1 ELSE 0)]

toggleTrackRenderer(w, slideData, embedded) ==
  applyTrackRenderer(w, SlideTrackRenderer(slideData), SlideTimeSlider(slideData))

\* ----------------------------------------------------------- dispatcher
choreographyHandlers ==
  [viewpoint |-> "toggleViewpoint", timeSlider |-> "toggleTimeSlider",
   layerVisibility |-> "toggleLayerVisibility", trackRenderer |-> "toggleTrackRenderer",
   camera |-> "toggleCamera"]
NON_EMBED_EXCLUDE_KEYS == {"viewpoint"}

handler(name, w, slideData, embedded) ==
  CASE name = "toggleViewpoint" -> toggleViewpoint(w, slideData, embedded)
    [] name = "toggleTimeSlider" -> toggleTimeSlider(w, slideData, embedded)
    [] name = "toggleLayerVisibility" -> toggleLayerVisibility(w, slideData, embedded)
    [] name = "toggleTrackRenderer" -> toggleTrackRenderer(w, slideData, embedded)
    [] name = "toggleCamera" -> toggleCamera(w, slideData, embedded)

\* mutant: the handler is called without the try/catch
tryHandler_noCatch(key, w, slideData, embedded) ==
  handler(choreographyHandlers[key], Invoked(w, key), slideData, embedded)

\* try { handler(context) } catch (error) { console.error(...) }     (l.32-36)
tryHandler(key, w, slideData, embedded) ==
  LET r == handler(choreographyHandlers[key], Invoked(w, key), slideData, embedded)
  IN IF r.threw THEN [r EXCEPT !.threw = FALSE, !.caught = @ + 1] ELSE r

\* mutant: the exclusion applies when not embedded (as the comment at l.29 words it)
entry_skipWhenNotEmbedded(key, w, slideData, embedded) ==
  IF key \notin DOMAIN choreographyHandlers THEN w
  ELSE IF ~embedded /\ key \in NON_EMBED_EXCLUDE_KEYS THEN w
  ELSE tryHandler(key, w, slideData, embedded)

\* the forEach callback                                              (l.25-37)
entry(key, w, slideData, embedded) ==
  IF key \notin DOMAIN choreographyHandlers THEN w
  ELSE IF embedded /\ key \in NON_EMBED_EXCLUDE_KEYS THEN w
  ELSE tryHandler(key, w, slideData, embedded)

\* Object.entries(slideData).forEach(...): an exception leaving the callback
\* ends the iteration.
RECURSIVE forEach(_, _, _, _)
forEach(keys, w, slideData, embedded) ==
  IF keys = <<>> \/ w.threw THEN w
  ELSE forEach(Tail(keys), entry(Head(keys), w, slideData, embedded), slideData, embedded)

\* mutant: every registered handler runs, whatever keys the slide has
slideAnimation_allHandlers(w, slideData, embedded) ==
  forEach(<<"viewpoint", "timeSlider", "layerVisibility", "trackRenderer", "camera">>,
          w, slideData, embedded)

slideAnimation(w, slideData, embedded) ==
  forEach(slideData.keys, w, slideData, embedded)

\* --------------------------------------------------------- slide driver
NaN == [isNaN |-> TRUE, val |-> 0]
Num(n) == [isNaN |-> FALSE, val |-> n]

\* window.location.hash.substring(1), as its sequence of characters
Digits == {"0", "1", "2", "3", "4", "5", "6", "7", "8", "9"}
DigitVal(c) ==
  CASE c = "0" -> 0 [] c = "1" -> 1 [] c = "2" -> 2 [] c = "3" -> 3 [] c = "4" -> 4
    [] c = "5" -> 5 [] c = "6" -> 6 [] c = "7" -> 7 [] c = "8" -> 8 [] c = "9" -> 9
Fragments ==
  { <<>>, <<"0">>, <<"1">>, <<"a">>, <<"1", "a">>, <<"a", "1">>, <<"0", "1">>,
    <<"1", "0">>, <<"-", "1">>, <<"-", "0">>, <<"-">> }

\* value of the longest prefix of s made of digits, given the value so far
RECURSIVE DigitPrefix(_, _)
DigitPrefix(s, acc) ==
  IF s = <<>> \/ Head(s) \notin Digits THEN acc
  ELSE DigitPrefix(Tail(s), 10 * acc + DigitVal(Head(s)))

\* parseInt(string, 10): optional sign, then the longest run of digits; NaN
\* when no digit follows the sign.  Trailing characters are ignored.
parseInt(s) ==
  LET neg == s # <<>> /\ Head(s) = "-"
      body == IF s # <<>> /\ Head(s) \in {"-", "+"} THEN Tail(s) ELSE s
  IN IF body = <<>> \/ Head(body) \notin Digits THEN NaN
     ELSE Num((IF neg THEN -1 ELSE 1) * DigitPrefix(body, 0))

\* choreographyData[hashIndex] is a slide (truthy)
HasSlide(data, index) == ~index.isNaN /\ index.val >= 0 /\ index.val < Len(data)
SlideAt(data, index) == data[index.val + 1]

\* mutant: the listener tests isNaN only, not that the index has a slide;
\* Object.entries(undefined) then throws in slideAnimation
hashListener_noBounds(d, frag, data, embedded) ==
  LET index == parseInt(frag)
  IN IF index.isNaN THEN [d EXCEPT !.hashIndex = index]
     ELSE IF ~HasSlide(data, index) THEN [d EXCEPT !.hashIndex = index, !.w = Throw(@)]
     ELSE [d EXCEPT !.hashIndex = index,
                    !.w = slideAnimation(d.w, SlideAt(data, index), embedded),
                    !.dispatched = Append(@, SlideAt(data, index))]
\* mutant: the listener dispatches in embedded mode
hashListener_embedded(d, frag, data, embedded) ==
  LET index == parseInt(frag)
  IN IF index.isNaN \/ ~HasSlide(data, index)
     THEN [d EXCEPT !.hashIndex = index]
     ELSE [d EXCEPT !.hashIndex = index,
                    !.w = slideAnimation(d.w, SlideAt(data, index), TRUE),
                    !.dispatched = Append(@, SlideAt(data, index))]

\* One run of the "hashchange" listener (l.260-271) on the driver state
\* d = [w, hashIndex, dispatched].
hashListener(d, frag, data, embedded) ==
  LET index == parseInt(frag)
  IN IF index.isNaN \/ ~HasSlide(data, index)
     THEN [d EXCEPT !.hashIndex = index]
     ELSE [d EXCEPT !.hashIndex = index,
                    !.w = slideAnimation(d.w, SlideAt(data, index), embedded),
                    !.dispatched = Append(@, SlideAt(data, index))]

\* One run of the reset button's "click" listener (l.276-294).
\* config.timeSliderStart is read from the slide itself, not from its
\* timeSlider object.
clickListener(d, data) ==
  IF HasSlide(data, d.hashIndex)
  THEN LET config == SlideAt(data, d.hashIndex)
       IN IF ~d.w.timeSlider.present THEN [d EXCEPT !.w = Throw(@)]
          ELSE LET w1 == [d.w EXCEPT !.timeSlider.timeExtent =
                            [start |-> NullDate, end |-> NewDate(SlideStart(config))]]
               IN [d EXCEPT !.w = IF w1.timeSlider.state = "ready" THEN play(w1) ELSE w1]
  ELSE d

\* Every registered listener of the event runs, in registration order; an
\* exception leaving one is reported (uncaught) and the next still runs.
RECURSIVE hashListeners_run(_, _, _, _, _)
hashListeners_run(n, d, frag, data, embedded) ==
  IF n = 0 THEN d
  ELSE LET r == hashListener([d EXCEPT !.w.threw = FALSE], frag, data, embedded)
       IN hashListeners_run(n - 1, [r EXCEPT !.escaped = d.escaped \/ r.w.threw],
                            frag, data, embedded)
RECURSIVE clickListeners_run(_, _, _)
clickListeners_run(n, d, data) ==
  IF n = 0 THEN d
  ELSE LET r == clickListener([d EXCEPT !.w.threw = FALSE], data)
       IN clickListeners_run(n - 1, [r EXCEPT !.escaped = d.escaped \/ r.w.threw], data)

Driver(faults) ==
  [w |-> World(faults), hashIndex |-> hashIndex, dispatched |-> <<>>, escaped |-> FALSE]

\* configureTimeSlider (l.302-334): slide 0's timeSlider config.  With a
\* slider element, reading slideData.timeSlider throws when
\* choreographyData[0] is undefined; without one the && stops at timeSlider.
configureTimeSlider(w, data) ==
  IF ~w.timeSlider.present THEN w
  ELSE IF Len(data) = 0 THEN Throw(w)
  ELSE LET cfg == SlideTimeSlider(data[1])
       IN IF w.timeSlider.present /\ cfg.isObj
             /\ Truthy(cfg.timeSliderStart) /\ Truthy(cfg.timeSliderEnd)
          THEN LET startFrame == NewDate(cfg.timeSliderStart)
                   endFrame == NewDate(cfg.timeSliderEnd)
                   w1 == [w EXCEPT
                            !.timeSlider.fullTimeExtent = [start |-> startFrame, end |-> endFrame],
                            !.timeSlider.timeExtent = [start |-> NullDate, end |-> startFrame],
                            !.timeSlider.stops = [value |-> cfg.timeSliderStep,
                                                  unit |-> cfg.timeSliderUnit]]
               IN IF w.timeSlider.state = "ready" /\ ~isEmbedded THEN play(w1) ELSE w1
          ELSE w

\* updateResetButtonState (l.349-357) is the only code that assigns
\* resetButton.disabled, and nothing in the program calls it: it contributes
\* no action, and resetButton.disabled keeps the value the page gave it.

\* -------------------------------------------------------------- events
\* What the fragment is, independently of how the listener parses it: the
\* decimal representation of an integer (an optional "-" and digits only).
IsDecimal(frag) ==
  LET body == IF frag # <<>> /\ Head(frag) = "-" THEN Tail(frag) ELSE frag
  IN body # <<>> /\ \A i \in DOMAIN body : body[i] \in Digits
Fragment(frag) ==
  IF IsDecimal(frag)
  THEN [numeric |-> TRUE,
        val |-> IF Head(frag) = "-" THEN -DigitPrefix(Tail(frag), 0) ELSE DigitPrefix(frag, 0)]
  ELSE [numeric |-> FALSE, val |-> 0]

NoEvent ==
  [kind |-> "none", fragment |-> Fragment(<<>>), dispatched |-> <<>>, embedded |-> FALSE,
   invoked |-> [k \in RegisteredKeys |-> 0], play |-> 0, stop |-> 0, caught |-> 0,
   escaped |-> FALSE, faults |-> {}]
Event(kind, frag, d, embedded) ==
  [kind |-> kind, fragment |-> Fragment(frag), dispatched |-> d.dispatched,
   embedded |-> embedded, invoked |-> d.w.invoked, play |-> d.w.play, stop |-> d.w.stop,
   caught |-> d.w.caught, escaped |-> d.escaped, faults |-> d.w.faults]
Marker(kind) == [NoEvent EXCEPT !.kind = kind]

Commit(w) ==
  /\ layers' = w.layers
  /\ view' = w.view
  /\ orphans' = w.orphans
  /\ timeSlider' = w.timeSlider
\* cap on the detached clones still loading
Bounded(w) == w.orphans <= MaxOrphans

\* the SDK failures that the handlers of a slide can meet
FaultsFor(slideKeys) ==
  {{}} \cup {{f} : f \in
     (IF "viewpoint" \in slideKeys THEN {"goTo"} ELSE {})
     \cup (IF "timeSlider" \in slideKeys THEN {"play"} ELSE {})}

\* The JSON documents the choreography path can hold.
S(keys, var) == [keys |-> keys, var |-> var]
Choreographies ==
  { <<>>,
    << S(<<"timeSlider", "trackRenderer">>, 1), S(<<"layerVisibility", "viewpoint">>, 2) >>,
    << S(<<"trackRenderer", "timeSlider">>, 2),
       S(<<"timeSlider", "trackRenderer", "timeSliderStart">>, 1) >>,
    << S(<<"camera">>, 1) >> }

\* the web map's layers when the view becomes ready
InitialLayers == {<<Layer("A", TRUE), Layer("B", FALSE), Layer("T", FALSE)>>}
NoExtent == [start |-> NullDate, end |-> NullDate]
Slider(present, state) ==
  [present |-> present, fullTimeExtent |-> NoExtent, timeExtent |-> NoExtent,
   stops |-> [value |-> 0, unit |-> Undefined], state |-> state]
InitialSliders == {Slider(FALSE, "absent"), Slider(TRUE, "disabled")}

Init ==
  /\ mapView = "null"
  /\ layers \in InitialLayers
  /\ view = [target |-> "initial", settled |-> TRUE]
  /\ orphans = 0
  /\ timeSlider \in InitialSliders
  /\ choreographyData = <<>>
  /\ hashIndex = Num(0)
  /\ isEmbedded = FALSE
  /\ resetButton \in {[disabled |-> b, clickListeners |-> 0] : b \in BOOLEAN}
  /\ hashListeners = 0
  /\ loading = 0
  /\ choreographyJson \in Choreographies
  /\ ev = NoEvent

\* "arcgisViewReadyChange" listener (l.366-381), up to the await in
\* loadChoreography.
ViewReadyChange(ready) ==
  /\ IF ready
     THEN /\ loading + hashListeners < MaxReady
          /\ mapView' = "view"
          /\ loading' = loading + 1
          /\ ev' = Marker("arcgisViewReadyChange")
     ELSE UNCHANGED <<mapView, loading, ev>>     \* l.367: return
  /\ UNCHANGED <<layers, view, orphans, timeSlider, choreographyData, hashIndex,
                 isEmbedded, resetButton, hashListeners, choreographyJson>>

\* loadChoreography settles (l.245-253) and initMapAnimator resumes (l.342-344).
LoadSettle(ok) ==
  /\ loading > 0
  /\ LET loaded == IF ok THEN choreographyJson ELSE choreographyData
         w == configureTimeSlider(World({}), loaded)
     IN /\ choreographyData' = loaded
        /\ hashListeners' = hashListeners + 1
        /\ resetButton' = IF w.threw THEN resetButton
                          ELSE [resetButton EXCEPT !.clickListeners = @ + 1]
        /\ Commit(w)
        /\ ev' = Event(IF ok THEN "load" ELSE "loadFailed", <<>>,
                       [w |-> w, dispatched |-> <<>>, escaped |-> w.threw], isEmbedded)
  /\ loading' = loading - 1
  /\ UNCHANGED <<mapView, hashIndex, isEmbedded, choreographyJson>>

\* the browser fires "hashchange" with window.location.hash = "#" + frag
HashChange(frag) ==
  /\ hashListeners > 0
  /\ LET d == hashListeners_run(hashListeners, Driver({}), frag, choreographyData, isEmbedded)
     IN /\ Bounded(d.w)
        /\ hashIndex' = d.hashIndex
        /\ Commit(d.w)
        /\ ev' = Event("hashchange", frag, d, isEmbedded)
  /\ UNCHANGED <<mapView, choreographyData, isEmbedded, resetButton, hashListeners,
                 loading, choreographyJson>>

\* the user clicks the reset button (a disabled button fires no click)
ResetClick ==
  /\ resetButton.clickListeners > 0
  /\ ~resetButton.disabled
  /\ LET d == clickListeners_run(resetButton.clickListeners, Driver({}), choreographyData)
     IN /\ Commit(d.w)
        /\ ev' = Event("click", <<>>, d, isEmbedded)
  /\ UNCHANGED <<mapView, choreographyData, hashIndex, isEmbedded, resetButton,
                 hashListeners, loading, choreographyJson>>

\* the promise of the latest goTo settles; a rejection is logged by its
\* .catch (l.51, l.70) and nothing else happens
GoToSettle(ok) ==
  /\ ~view.settled
  /\ view' = [view EXCEPT !.settled = TRUE]
  /\ ev' = Marker("async")
  /\ UNCHANGED <<mapView, layers, orphans, timeSlider, choreographyData, hashIndex,
                 isEmbedded, resetButton, hashListeners, loading, choreographyJson>>

\* trackLayer.when() settles for the clone at position i and
\* applyTrackRenderer resumes (l.179-190); a rejection is caught (l.192).
\* mutant: the continuation leaves the clone's visibility as it finds it
Resume_keepVisibility(layer) ==
  [layer EXCEPT
     !.timeInfo = [startField |-> layer.timeInfo.startField,
                   trackIdField |-> layer.cont.trackIdField,
                   interval |-> [unit |-> layer.cont.unit, value |-> layer.cont.value]],
     !.trackInfo = layer.cont.trackInfo,
     !.cont = NoCont]
Resume(layer) ==
  [layer EXCEPT
     !.visible = TRUE,
     !.timeInfo = [startField |-> layer.timeInfo.startField,
                   trackIdField |-> layer.cont.trackIdField,
                   interval |-> [unit |-> layer.cont.unit, value |-> layer.cont.value]],
     !.trackInfo = layer.cont.trackInfo,
     !.cont = NoCont]
LayerLoaded(i, ok) ==
  /\ layers[i].cont.active
  /\ layers' = [layers EXCEPT ![i] = IF ok THEN Resume(@) ELSE [@ EXCEPT !.cont = NoCont]]
  /\ ev' = Marker("async")
  /\ UNCHANGED <<mapView, view, orphans, timeSlider, choreographyData, hashIndex,
                 isEmbedded, resetButton, hashListeners, loading, choreographyJson>>

\* the same for a clone that is not in the map: nothing of the map changes
OrphanSettle ==
  /\ orphans > 0
  /\ orphans' = orphans - 1
  /\ ev' = Marker("async")
  /\ UNCHANGED <<mapView, layers, view, timeSlider, choreographyData, hashIndex,
                 isEmbedded, resetButton, hashListeners, loading, choreographyJson>>

\* the time slider widget changes state by itself: it becomes ready once
\* loaded, and playback ends or is paused
SliderEnv ==
  /\ timeSlider.present
  /\ timeSlider.state \in {"disabled", "playing"}
  /\ timeSlider' = [timeSlider EXCEPT !.state = "ready"]
  /\ ev' = Marker("async")
  /\ UNCHANGED <<mapView, layers, view, orphans, choreographyData, hashIndex,
                 isEmbedded, resetButton, hashListeners, loading, choreographyJson>>

Async ==
  \/ \E ok \in BOOLEAN : GoToSettle(ok)
  \/ \E i \in DOMAIN layers, ok \in BOOLEAN : LayerLoaded(i, ok)
  \/ OrphanSettle
  \/ SliderEnv

\* In the driver the SDK calls are taken to succeed; their synchronous
\* failures are explored with the dispatcher alone (SpecAnimator).
Next ==
  \/ \E ready \in BOOLEAN : ViewReadyChange(ready)
  \/ \E ok \in BOOLEAN : LoadSettle(ok)
  \/ \E frag \in Fragments : HashChange(frag)
  \/ ResetClick
  \/ Async

Spec == Init /\ [][Next]_vars

\* ------------------------------------------------- the dispatcher alone
\* slideAnimation is exported: any caller may pass any slide and either
\* value of embedded, with the SDK objects in any state earlier events can
\* have left.  One call is made, and the work it left pending then finishes.
Configured(state, end) ==
  [present |-> TRUE,
   fullTimeExtent |-> [start |-> NewDate("2024-02-01"), end |-> NewDate("2024-02-02")],
   timeExtent |-> [start |-> NullDate, end |-> end],
   stops |-> [value |-> 5, unit |-> "hours"], state |-> state]
SliderStates == {"disabled", "ready", "playing"}
AnySliders ==
  {Slider(FALSE, "absent")}
  \cup {Slider(TRUE, st) : st \in SliderStates}
  \cup {Configured(st, e) : st \in SliderStates, e \in {NewDate("2024-02-01"), InvalidDate}}
Pending(layer) ==
  [layer EXCEPT !.cont = [active |-> TRUE, trackIdField |-> "f2", unit |-> "hours",
                          value |-> 5, trackInfo |-> "r2"]]
AnyLayers ==
  {<<Layer("A", v), Layer("B", v), Layer("T", v)>> : v \in BOOLEAN}
  \cup {<<Layer("A", TRUE), Layer("B", FALSE), Pending(Layer("T", FALSE))>>}
  \cup {<<Layer("T", FALSE), Layer("A", TRUE), Layer("T", TRUE)>>}    \* two layers titled T

InitAnimator ==
  /\ mapView = "view"
  /\ layers \in AnyLayers
  /\ view = [target |-> "initial", settled |-> TRUE]
  /\ orphans = 0
  /\ timeSlider \in AnySliders
  /\ choreographyData = <<>>
  /\ hashIndex = Num(0)
  /\ isEmbedded = FALSE
  /\ resetButton = [disabled |-> FALSE, clickListeners |-> 0]
  /\ hashListeners = 0
  /\ loading = 0
  /\ choreographyJson = <<>>
  /\ ev = NoEvent

Animate(slideData, embedded, faults) ==
  /\ ev.kind = "none"
  /\ LET w == slideAnimation(World(faults), slideData, embedded)
     IN /\ Bounded(w)
        /\ Commit(w)
        /\ ev' = Event("slideAnimation", <<>>,
                       [w |-> w, dispatched |-> <<slideData>>, escaped |-> w.threw], embedded)
  /\ UNCHANGED <<mapView, choreographyData, hashIndex, isEmbedded, resetButton,
                 hashListeners, loading, choreographyJson>>

NextAnimator ==
  \/ \E slideData \in Slides, embedded \in BOOLEAN :
       \E faults \in FaultsFor(Range(slideData.keys)) : Animate(slideData, embedded, faults)
  \/ Async

SpecAnimator == InitAnimator /\ [][NextAnimator]_vars

\* ================================================================ claims
\* The slide of a slideAnimation event, and what the claims say of it.
TheSlide(e) == e.dispatched[1]
Date(iso) == [valid |-> TRUE, iso |-> iso]
\* the key is one slideAnimation must handle for this slide and mode
MustHandle(slide, embedded, key) ==
  /\ key \in Range(slide.keys)
  /\ key \in {"viewpoint", "timeSlider", "layerVisibility", "trackRenderer", "camera"}
  /\ ~(embedded /\ key = "viewpoint")
Visibility(ls) == [i \in DOMAIN ls |-> ls[i].visible]
Titles(ls) == [i \in DOMAIN ls |-> ls[i].title]
\* the layer objects, their visibility aside
Hidden(ls) == [i \in DOMAIN ls |-> [ls[i] EXCEPT !.visible = FALSE]]

\* C1: in every slideAnimation call, including those where a handler throws
\* (the exception is caught and counted in ev.caught), every key that must be
\* handled has its handler invoked exactly once and no exception leaves
\* slideAnimation.
C1_HandlerIsolation ==
  ev.kind = "slideAnimation" =>
    /\ \A k \in RegisteredKeys :
         MustHandle(TheSlide(ev), ev.embedded, k) => ev.invoked[k] = 1
    /\ ~ev.escaped
\* a slide whose first handler threw and whose second handler still ran
C1_Witness ==
  /\ ev.kind = "slideAnimation"
  /\ ev.caught = 1
  /\ Len(TheSlide(ev).keys) = 2
  /\ TheSlide(ev).keys[1] = "camera"
  /\ ev.invoked["camera"] = 1
  /\ ev.invoked[TheSlide(ev).keys[2]] = 1
  /\ ~ev.escaped

C5_OnlyOwnKeys ==
  [][ev'.kind = "slideAnimation" =>
       LET slide == TheSlide(ev')
       IN /\ \A k \in RegisteredKeys : ~Has(slide, k) => ev'.invoked[k] = 0
          /\ (~Has(slide, "viewpoint") /\ ~Has(slide, "camera")) => view' = view
          /\ ~Has(slide, "timeSlider") => timeSlider' = timeSlider
          /\ ~Has(slide, "layerVisibility") => Visibility(layers') = Visibility(layers)
          /\ ~Has(slide, "trackRenderer") => (Hidden(layers') = Hidden(layers) /\ orphans' = orphans)
          /\ Range(slide.keys) \subseteq OtherKeys =>
               UNCHANGED <<layers, view, orphans, timeSlider>>]_vars
C5_Witness ==
  /\ ev.kind = "slideAnimation"
  /\ TheSlide(ev).keys = <<"timeSliderStart", "layerVisibility">>
  /\ TheSlide(ev).var = 1
  /\ ev.invoked = [k \in RegisteredKeys |-> IF k = "layerVisibility" THEN 1 ELSE 0]

\* C6: after the timeSlider handler has run on a present slider for a config
\* with start T0, end T1 (both non-empty), unit U and step S, the slider has
\* fullTimeExtent [T0, T1], timeExtent [null, T0] and stops {value: S, unit: U},
\* whatever the slider held before, embedded or not.
C6_TimeSliderConfigured ==
  (/\ ev.kind = "slideAnimation"
   /\ Has(TheSlide(ev), "timeSlider")
   /\ timeSlider.present
   /\ Truthy(TimeSliderValue(TheSlide(ev).var).timeSliderStart)
   /\ Truthy(TimeSliderValue(TheSlide(ev).var).timeSliderEnd))
  => LET cfg == TimeSliderValue(TheSlide(ev).var)
     IN /\ timeSlider.fullTimeExtent =
             [start |-> Date(cfg.timeSliderStart), end |-> Date(cfg.timeSliderEnd)]
        /\ timeSlider.timeExtent = [start |-> NullDate, end |-> Date(cfg.timeSliderStart)]
        /\ timeSlider.stops = [value |-> cfg.timeSliderStep, unit |-> cfg.timeSliderUnit]
\* an embedded call on a slider that is playing
C6_Witness ==
  /\ ev.kind = "slideAnimation"
  /\ ev.embedded
  /\ Has(TheSlide(ev), "timeSlider")
  /\ TheSlide(ev).var = 1
  /\ timeSlider.present
  /\ timeSlider.state = "playing"
  /\ timeSlider.timeExtent.end = Date("2024-01-01")

\* the timeSlider handler ran on a present slider with start and end present
RanTimeSlider(e, slider) ==
  /\ e.kind = "slideAnimation"
  /\ Has(TheSlide(e), "timeSlider")
  /\ slider.present
  /\ Truthy(TimeSliderValue(TheSlide(e).var).timeSliderStart)
  /\ Truthy(TimeSliderValue(TheSlide(e).var).timeSliderEnd)

\* C7 as claimed: play is called iff the slider is ready and embedded is
\* false, and in every other case stop is called and play is not.
C7_Original ==
  [][RanTimeSlider(ev', timeSlider) =>
       IF timeSlider.state = "ready" /\ ~ev'.embedded
       THEN ev'.play = 1 /\ ev'.stop = 0
       ELSE ev'.play = 0 /\ ev'.stop = 1]_vars
\* C7 amended: play is called iff the slider is ready and embedded is false;
\* stop is called iff the slider is ready and embedded is true; when the
\* slider is not ready neither is called.
C7_PlayOrStopOnlyWhenReady ==
  [][RanTimeSlider(ev', timeSlider) =>
       /\ ev'.play = (IF timeSlider.state = "ready" /\ ~ev'.embedded THEN 1 ELSE 0)
       /\ ev'.stop = (IF timeSlider.state = "ready" /\ ev'.embedded THEN 1 ELSE 0)]_vars
\* the handler ran on a slider that was not ready: neither play nor stop
C7_Witness ==
  /\ RanTimeSlider(ev, timeSlider)
  /\ timeSlider.state = "disabled"
  /\ ev.play = 0
  /\ ev.stop = 0

\* the layerVisibility handler ran with its two lists
RanLayerVisibility(e) ==
  /\ e.kind = "slideAnimation"
  /\ Has(TheSlide(e), "layerVisibility")
  /\ LayerVisibilityValue(TheSlide(e).var).isObj

\* C8 as claimed: every layer titled in layersOn ends visible, every layer
\* titled in layersOff ends hidden, every other layer keeps its visibility,
\* and the collection keeps its members and order.
C8_Original ==
  [][RanLayerVisibility(ev') =>
       LET lv == LayerVisibilityValue(TheSlide(ev').var)
       IN /\ Titles(layers') = Titles(layers)
          /\ \A i \in DOMAIN layers :
               /\ layers[i].title \in Range(lv.layersOn) => layers'[i].visible
               /\ layers[i].title \in Range(lv.layersOff) => ~layers'[i].visible
               /\ layers[i].title \notin Range(lv.layersOn) \cup Range(lv.layersOff)
                    => layers'[i].visible = layers[i].visible]_vars
\* C8 amended: every layer titled in layersOff ends hidden, every layer titled
\* in layersOn and not in layersOff ends visible, every other layer keeps its
\* visibility, and the collection keeps its members and order.
C8_LayersOffWins ==
  [][RanLayerVisibility(ev') =>
       LET lv == LayerVisibilityValue(TheSlide(ev').var)
       IN /\ Titles(layers') = Titles(layers)
          /\ ~Has(TheSlide(ev'), "trackRenderer") => Hidden(layers') = Hidden(layers)
          /\ \A i \in DOMAIN layers :
               /\ layers[i].title \in Range(lv.layersOff) => ~layers'[i].visible
               /\ layers[i].title \in Range(lv.layersOn) \ Range(lv.layersOff)
                    => layers'[i].visible
               /\ layers[i].title \notin Range(lv.layersOn) \cup Range(lv.layersOff)
                    => layers'[i].visible = layers[i].visible]_vars
\* layersOn = [A, B], layersOff = [B, T]: A shown, B and T hidden
C8_Witness ==
  /\ RanLayerVisibility(ev)
  /\ TheSlide(ev).var = 2
  /\ Visibility(layers) = <<TRUE, FALSE, FALSE>>

\* the fragment of a hashchange event names a slide of the loaded sequence
ValidFragment(e, data) ==
  e.fragment.numeric /\ e.fragment.val >= 0 /\ e.fragment.val < Len(data)

\* C2 as claimed: a hash change whose fragment is not the decimal
\* representation of an integer, or is an integer outside 0..length-1, calls
\* slideAnimation not at all, leaves view, layers and time slider as they
\* were and throws nothing; a fragment that is a valid index has
\* slideAnimation called with exactly that slide.
C2_Original ==
  [][ev'.kind = "hashchange" =>
       IF ValidFragment(ev', choreographyData)
       THEN /\ ev'.dispatched # <<>>
            /\ \A i \in DOMAIN ev'.dispatched :
                 ev'.dispatched[i] = choreographyData[ev'.fragment.val + 1]
       ELSE /\ ev'.dispatched = <<>>
            /\ ~ev'.escaped
            /\ UNCHANGED <<layers, view, orphans, timeSlider>>]_vars

\* C3 as claimed: a hash change that is rejected as invalid (it dispatches
\* nothing) leaves hashIndex unchanged; stated for the case the claim turns
\* on, where hashIndex designates a slide before the hash change, so that a
\* following reset click would act on that slide.
C3_Original ==
  [][(/\ ev'.kind = "hashchange"
      /\ ev'.dispatched = <<>>
      /\ HasSlide(choreographyData, hashIndex)) => hashIndex' = hashIndex]_vars

\* C9 as claimed: when hashIndex designates a slide whose timeSlider config
\* has start T0, a reset click sets timeExtent to [null, T0], calls play iff
\* the slider is ready, and leaves fullTimeExtent and stops unchanged.
C9_Original ==
  [][(/\ ev'.kind = "click"
      /\ timeSlider.present
      /\ HasSlide(choreographyData, hashIndex)
      /\ Truthy(SlideTimeSlider(SlideAt(choreographyData, hashIndex)).timeSliderStart))
     => LET T0 == SlideTimeSlider(SlideAt(choreographyData, hashIndex)).timeSliderStart
        IN /\ timeSlider'.timeExtent = [start |-> NullDate, end |-> Date(T0)]
           /\ (ev'.play >= 1) = (timeSlider.state = "ready")
           /\ timeSlider'.fullTimeExtent = timeSlider.fullTimeExtent
           /\ timeSlider'.stops = timeSlider.stops]_vars

\* the current slide declares autoplay (timeSlider.timeSliderAutoplay)
DeclaresAutoplay(data, index) ==
  /\ HasSlide(data, index)
  /\ SlideTimeSlider(SlideAt(data, index)).isObj
  /\ SlideTimeSlider(SlideAt(data, index)).timeSliderAutoplay

\* C10 as claimed: after initialisation and after every valid hash change the
\* reset button is enabled if the current slide declares autoplay and
\* disabled otherwise.
C10_Original ==
  ((ev.kind = "load" /\ ~ev.escaped) \/ (ev.kind = "hashchange" /\ ev.dispatched # <<>>))
  => (~resetButton.disabled) = DeclaresAutoplay(choreographyData, hashIndex)

\* C11: a failed choreography load leaves the loaded sequence as it was
\* (empty, when nothing was loaded before), and while the sequence is empty
\* every hash change, whatever its fragment, calls slideAnimation not at all,
\* leaves view, layers and time slider unchanged and throws nothing.
C11_FailedLoadInert ==
  [][/\ ev'.kind = "loadFailed" => choreographyData' = choreographyData
     /\ (ev'.kind = "hashchange" /\ choreographyData = <<>>) =>
          /\ ev'.dispatched = <<>>
          /\ ~ev'.escaped
          /\ UNCHANGED <<layers, view, orphans, timeSlider, choreographyData>>]_vars
\* the only load has failed (the document itself has slides) and a hash
\* change naming slide 0 was then ignored
C11_Witness ==
  /\ ev.kind = "hashchange"
  /\ ev.fragment = [numeric |-> TRUE, val |-> 0]
  /\ hashListeners = 1
  /\ loading = 0
  /\ choreographyJson # <<>>
  /\ choreographyData = <<>>
  /\ ev.dispatched = <<>>

\* C12 as claimed: every run of initMapAnimator, after the load has settled,
\* registers the hash listener, performs the slide-0 configuration step and
\* registers the reset button's click listener, and no exception escapes it.
C12_Original ==
  [][ev'.kind \in {"load", "loadFailed"} =>
       /\ hashListeners' = hashListeners + 1
       /\ resetButton'.clickListeners = resetButton.clickListeners + 1
       /\ ~ev'.escaped]_vars

\* C13 as claimed: whatever ready-change events came before, a hash change to
\* a valid index calls slideAnimation exactly once, and at most one hash
\* listener and one click listener are ever registered.
C13_Original ==
  [][/\ (ev'.kind = "hashchange" /\ ValidFragment(ev', choreographyData))
          => Len(ev'.dispatched) = 1
     /\ hashListeners' <= 1
     /\ resetButton'.clickListeners <= 1]_vars

\* what a continuation leaves on the clone it was waiting for
Reloaded(layer) ==
  [layer EXCEPT
     !.visible = TRUE,
     !.timeInfo.trackIdField = layer.cont.trackIdField,
     !.timeInfo.interval = [unit |-> layer.cont.unit, value |-> layer.cont.value],
     !.trackInfo = layer.cont.trackInfo,
     !.cont = NoCont]
\* every pending reload of the stack has completed
Settled(ls) == [i \in DOMAIN ls |-> IF ls[i].cont.active THEN Reloaded(ls[i]) ELSE ls[i]]
\* the layers after slide `first` was dispatched on stack ls and had fully
\* finished, and slide `second` was then dispatched and finished
Sequential(ls, first, second) ==
  LET w1 == slideAnimation([World({}) EXCEPT !.layers = ls, !.orphans = 0], first, FALSE)
      w2 == slideAnimation([World({}) EXCEPT !.layers = Settled(w1.layers), !.orphans = 0],
                           second, FALSE)
  IN Settled(w2.layers)
TheStack == CHOOSE ls \in InitialLayers : TRUE

\* C14: nothing cancels a pending layer reload: a hash change leaves every
\* pending continuation pending (on its clone in the map, or on the clone a
\* later trackRenderer run detached), and when the load of a clone in the map
\* completes the continuation forces that clone visible and writes its
\* timeInfo and trackInfo, whatever was dispatched in between.  The witness
\* is the race: slide j dispatched while slide i's reload was pending, the
\* continuation then run, and the layers differ from those of dispatching j
\* after i had finished.
C14_PendingReloadNeverCancelled ==
  [][/\ ev'.kind = "hashchange" =>
          \A i \in DOMAIN layers : layers[i].cont.active =>
             (layers'[i].cont = layers[i].cont \/ orphans' > orphans)
     /\ ev'.kind = "async" =>
          \A i \in DOMAIN layers : (layers[i].cont.active /\ ~layers'[i].cont.active) =>
             layers'[i] \in {Reloaded(layers[i]), [layers[i] EXCEPT !.cont = NoCont]}]_vars
\* slides 0 (trackRenderer on T) and 1 (layersOff names T): slide 1 is the
\* current slide, all work has finished, and T is visible with slide 0's
\* track info, where the sequential order leaves it hidden
C14_Witness ==
  /\ Len(choreographyData) = 2
  /\ Has(choreographyData[1], "trackRenderer")
  /\ Has(choreographyData[2], "layerVisibility")
  /\ hashIndex = Num(1)
  /\ ev.kind = "async"
  /\ orphans = 0
  /\ \A i \in DOMAIN layers : ~layers[i].cont.active
  /\ layers[3].title = "T" /\ layers[3].visible /\ layers[3].trackInfo = "r1"
  /\ ~Sequential(TheStack, choreographyData[1], choreographyData[2])[3].visible
  /\ layers # Sequential(TheStack, choreographyData[1], choreographyData[2])

\* C15 as claimed: dispatching a slide whose camera value is present (and
\* that has no viewpoint key) starts a view transition to that camera, as the
\* viewpoint handler does for a viewpoint, and no error is raised.
C15_Original ==
  [][(/\ ev'.dispatched # <<>>
      /\ Has(TheSlide(ev'), "camera")
      /\ Truthy(CameraValue(TheSlide(ev').var))
      /\ ~Has(TheSlide(ev'), "viewpoint"))
     => /\ view' = [target |-> CameraValue(TheSlide(ev').var), settled |-> FALSE]
        /\ ev'.caught = 0]_vars

\* position of the first layer with that title, 0 when there is none
FirstTitled(ls, title) ==
  IF \A i \in DOMAIN ls : ls[i].title # title THEN 0
  ELSE CHOOSE i \in DOMAIN ls :
         ls[i].title = title /\ \A j \in 1..(i - 1) : ls[j].title # title
\* the continuation the trackRenderer handler of the slide leaves pending
ContOf(slide) ==
  [active |-> TRUE,
   trackIdField |-> TrackRendererValue(slide.var).trackFieldName,
   unit |-> TimeSliderValue(slide.var).timeSliderUnit,
   value |-> TimeSliderValue(slide.var).timeSliderStep,
   trackInfo |-> TrackRendererValue(slide.var).trackInfo]
\* the step replaced the layer at position at by its clone, at that
\* position, and touched no other layer (visibilities aside)
ReplacedAt(at, slide) ==
  /\ layers'[at] = [layers[at] EXCEPT !.cont = ContOf(slide), !.visible = layers'[at].visible]
  /\ orphans' = orphans + (IF layers[at].cont.active THEN 1 ELSE 0)
  /\ \A i \in DOMAIN layers : i # at => Hidden(layers')[i] = Hidden(layers)[i]
  /\ ~Has(slide, "layerVisibility") => Visibility(layers') = Visibility(layers)
\* the step left the map and every layer as they were (visibilities aside)
NothingReplaced(slide) ==
  /\ Hidden(layers') = Hidden(layers)
  /\ orphans' = orphans
  /\ ~Has(slide, "layerVisibility") => layers' = layers

\* C16 as claimed: no step changes the number of layers or the titles by
\* index; every trackRenderer run replaces exactly the first layer titled
\* trackLayerName by its clone at the same index, and changes nothing when
\* no layer has that title.
C16_Original ==
  [][/\ Titles(layers') = Titles(layers)
     /\ (ev'.kind = "slideAnimation" /\ Has(TheSlide(ev'), "trackRenderer")) =>
          LET slide == TheSlide(ev')
              at == FirstTitled(layers, TrackRendererValue(slide.var).trackLayerName)
          IN IF at # 0 THEN ReplacedAt(at, slide) ELSE NothingReplaced(slide)]_vars
\* C16 amended: no step changes the number of layers or the titles by index;
\* a trackRenderer run on a slide that also has a timeSlider object replaces
\* exactly the first layer titled trackLayerName by its clone at the same
\* index; when no layer has that title, or the slide has no timeSlider
\* object, the map and all layers are unchanged.
C16_ShapePreserved ==
  [][/\ Titles(layers') = Titles(layers)
     /\ (ev'.kind = "slideAnimation" /\ Has(TheSlide(ev'), "trackRenderer")) =>
          LET slide == TheSlide(ev')
              at == FirstTitled(layers, TrackRendererValue(slide.var).trackLayerName)
          IN IF at # 0 /\ Has(slide, "timeSlider")
             THEN ReplacedAt(at, slide) ELSE NothingReplaced(slide)]_vars
\* with two layers titled T, the first was replaced by its clone in place
\* and the second was left alone
C16_Witness ==
  /\ ev.kind = "slideAnimation"
  /\ Has(TheSlide(ev), "trackRenderer") /\ Has(TheSlide(ev), "timeSlider")
  /\ TheSlide(ev).var = 1
  /\ Titles(layers) = <<"T", "A", "T">>
  /\ layers[1].cont = ContOf(TheSlide(ev))
  /\ ~layers[3].cont.active

\* the keys of ks that are in the set, in their order
Only(ks, set) == SelectSeq(ks, LAMBDA k : k \in set)
\* the layers and detached clones a dispatch of the slide leaves, from the
\* current state
TrackOutcome(slide, embedded) ==
  LET w == slideAnimation(World({}), slide, embedded)
  IN <<Hidden(w.layers), w.orphans>>

\* C17 as claimed: what a dispatch leaves in the layers (visibilities aside)
\* is the same for every slide with the same trackRenderer value, whatever
\* its timeSlider value and with or without a timeSlider key.
C17_Original ==
  [][(ev'.kind = "slideAnimation" /\ Has(TheSlide(ev'), "trackRenderer")) =>
       \A v \in Variants, without \in BOOLEAN :
         LET slide == TheSlide(ev')
             other == [keys |-> IF without THEN Only(slide.keys, Keys \ {"timeSlider"})
                                ELSE slide.keys,
                       var |-> v]
         IN TrackRendererValue(v) = TrackRendererValue(slide.var) =>
              TrackOutcome(other, ev'.embedded) = <<Hidden(layers'), orphans'>>]_vars
\* C17 amended: what a dispatch leaves in the layers (visibilities aside) is
\* determined by slideData.trackRenderer together with the unit and step of
\* slideData.timeSlider: slides that agree on these leave the same layers,
\* whatever their other keys and the rest of their timeSlider value, and a
\* slide with trackRenderer and no timeSlider object leaves them unchanged.
C17_TrackDependsOnRendererAndInterval ==
  [][(ev'.kind = "slideAnimation" /\ Has(TheSlide(ev'), "trackRenderer")) =>
       LET slide == TheSlide(ev')
       IN /\ ~Has(slide, "timeSlider") => NothingReplaced(slide)
          /\ \A v \in Variants :
               LET other == [keys |-> Only(slide.keys, {"trackRenderer", "timeSlider"}),
                             var |-> v]
               IN (/\ TrackRendererValue(v) = TrackRendererValue(slide.var)
                   /\ TimeSliderValue(v).timeSliderUnit = TimeSliderValue(slide.var).timeSliderUnit
                   /\ TimeSliderValue(v).timeSliderStep = TimeSliderValue(slide.var).timeSliderStep)
                  => TrackOutcome(other, ev'.embedded) = <<Hidden(layers'), orphans'>>]_vars
\* a slide with variant 4's timeSlider (the renderer, unit and step of
\* variant 1, other dates) and a third key left the clone of T pending
C17_Witness ==
  /\ ev.kind = "slideAnimation"
  /\ TheSlide(ev).var = 4
  /\ Len(TheSlide(ev).keys) = 3
  /\ Has(TheSlide(ev), "trackRenderer") /\ Has(TheSlide(ev), "timeSlider")
  /\ Titles(layers) = <<"A", "B", "T">>
  /\ layers[3].cont = ContOf([keys |-> <<"trackRenderer", "timeSlider">>, var |-> 1])

CurrentReloads(data, index, ls, i) ==
  /\ HasSlide(data, index)
  /\ Has(SlideAt(data, index), "trackRenderer")
  /\ Has(SlideAt(data, index), "timeSlider")
  /\ i = FirstTitled(ls, TrackRendererValue(SlideAt(data, index).var).trackLayerName)

C20_NeverEmbedded ==
  /\ isEmbedded = FALSE
  /\ (ev.kind = "hashchange" /\ ev.dispatched # <<>>) =>
       /\ ~ev.embedded
       /\ mapView # "null"
       /\ ev.stop = 0
       /\ Has(TheSlide(ev), "viewpoint") => ev.invoked["viewpoint"] = Len(ev.dispatched)
\* a slide with the viewpoint key was dispatched and the transition started
C20_Witness ==
  /\ ev.kind = "hashchange"
  /\ Len(ev.dispatched) = 1
  /\ Has(TheSlide(ev), "viewpoint")
  /\ ev.invoked["viewpoint"] = 1
  /\ view = [target |-> "vp2", settled |-> FALSE]
  /\ mapView = "view"
  /\ ~isEmbedded

====
